---- MODULE Spec2Model ----
(***************************************************************************)
(* Model of the bounded-concurrency batch dispatcher of                    *)
(* ibm_translation_client: TranslationClient.translate_file (__init__.py)  *)
(* and translate_file_async / batch (main.py).                             *)
(*                                                                         *)
(* The program is single-process cooperative (asyncio): a job runs         *)
(* atomically from one suspension point to the next.  The suspension       *)
(* points of a job are: waiting for the semaphore, waiting for an HTTP     *)
(* round trip, waiting for a backoff delay.  One action of the model is    *)
(* one such atomic run of one job.                                         *)
(***************************************************************************)
EXTENDS Integers, Sequences, FiniteSets, TLC

\* ---- bounds of the model ----
MaxJobs == 3
MaxConcurrent == 2
\* deepest nesting of directories below the input directory
MaxDepth == 2

\* ---- program constants ----
\* tenacity.stop_after_attempt(3)
MaxAttempts == 3

\* variant: gather() without return_exceptions
ReturnExceptions_False == FALSE

\* gather(..., return_exceptions=True)
ReturnExceptions == TRUE

\* ---- value domains ----
\* translated text the remote service may answer with; the client passes it
\* through unread, so one value stands for any text
Contents == {"t1"}
\* body of a 2xx response: a text under the synthetic filename key, or a
\* body that cannot be parsed / lacks the key
BadBody == "bad"
Bodies == Contents \cup {BadBody}
\* outcome of one remote attempt: transport error / non-2xx, or a 2xx body
AttemptError == "error"
AttemptOutcomes == {AttemptError} \cup Bodies
\* outcome of reading the input file
ReadOutcomes == {"ok", "read_error"}
\* outcome of mkdir + open + write of the output file; on "write_error"
\* (unwritable output directory) nothing is written
WriteOutcomes == {"ok", "write_error"}
\* content of an output path
Absent == "absent"

\* TranslationJobResult | None, and "pending" while translate_file runs
Pending == [tag |-> "pending", content |-> ""]
Failed == [tag |-> "Failed", content |-> ""]
Ok(c) == [tag |-> "Ok", content |-> c]

NoLines == [SUCCESS |-> 0, FAILURE |-> 0, ERROR |-> 0]

VARIABLES
    n,               \* number of discovered input files = submitted jobs
    max_concurrent,  \* --max-concurrent
    sem,             \* value of client.semaphore
    waiters,         \* jobs suspended in semaphore.acquire, FIFO
    pc,              \* position of each job's coroutine
    attempts,        \* remote attempts issued so far by each job
    hist,            \* outcomes of the completed attempts of each job
    result,          \* value returned by client.translate_file to the job
    exc,             \* exception that left the job's coroutine
    wrote,           \* write outcome of the job, "none" if it never wrote
    output,          \* content of each job's output path
    lines,           \* per job, the lines emitted on the status stream
    phase,           \* position of batch()
    n_total,
    n_success,
    summaries,       \* number of summary lines emitted
    input_dir,       \* Path(input_dir), as its sequence of parts
    output_dir,      \* Path(output_dir)
    input_files,     \* the discovered input paths, in discovery order
    output_files     \* the output path derived for each of them

paths == <<input_dir, output_dir, input_files, output_files>>

vars == <<n, max_concurrent, sem, waiters, pc, attempts, hist, result, exc,
          wrote, output, lines, phase, n_total, n_success, summaries,
          input_dir, output_dir, input_files, output_files>>

Jobs == 1..n

TypeOK ==
    /\ n \in 0..MaxJobs
    /\ max_concurrent \in 1..MaxConcurrent
    /\ sem \in 0..max_concurrent
    /\ pc \in [Jobs -> {"pending", "waiting", "granted", "inflight",
                        "backoff", "returned", "raised"}]
    /\ attempts \in [Jobs -> 0..(MaxAttempts + 1)]
    /\ \A j \in Jobs : result[j] \in {Pending, Failed} \cup {Ok(c) : c \in Contents}
    /\ exc \in [Jobs -> {"none", "read", "write", "translate"}]
    /\ wrote \in [Jobs -> {"none"} \cup WriteOutcomes]
    /\ output \in [Jobs -> {Absent} \cup Contents]
    /\ phase \in {"running", "done", "aborted"}

\* ---- asyncio.Semaphore, as used by `async with self.semaphore` ----

\* variant: the semaphore is created one unit too large
InitialValue_OffByOne(mc) == mc + 1

\* variant: a maximum below 1 is raised to 1
InitialValue_AtLeastOne(mc) == IF mc < 1 THEN 1 ELSE mc

\* asyncio.Semaphore(max_concurrent)
InitialValue(mc) == mc

\* Semaphore.locked(): no unit free, or somebody is queued
Locked(s, ws) == s = 0 \/ ws # <<>>

\* first queued job whose future is not done yet, 0 if none
RECURSIVE FirstNotDone(_, _)
FirstNotDone(ws, p) ==
    IF ws = <<>> THEN 0
    ELSE IF p[Head(ws)] = "waiting" THEN Head(ws)
    ELSE FirstNotDone(Tail(ws), p)

\* Semaphore._wake_up_next(): hand one unit to the first waiter not yet woken
WakeUpNext(s, ws, p) ==
    LET w == FirstNotDone(ws, p)
    IN  IF w = 0 THEN [sem |-> s, pc |-> p]
        ELSE [sem |-> s - 1, pc |-> [p EXCEPT ![w] = "granted"]]

\* Semaphore.release()
Release(s, ws, p) == WakeUpNext(s + 1, ws, p)

\* variant: acquire without any release
ExitReleases_Never(path) == FALSE

\* variant: release only on the success return, skipped on the error paths
ExitReleases_NotOnFailure(path) == path = "return_ok"

\* `async with` runs release on every way out of its block
ExitReleases(path) == TRUE

\* leaving the `async with` block by `path`, job j's coroutine going to `to`
LeaveGate(j, path, to) ==
    LET p == [pc EXCEPT ![j] = to]
        r == IF ExitReleases(path) THEN Release(sem, waiters, p)
             ELSE [sem |-> sem, pc |-> p]
    IN  /\ sem' = r.sem
        /\ pc' = r.pc
        /\ UNCHANGED waiters

RemoveWaiter(ws, j) == SelectSeq(ws, LAMBDA w : w # j)

\* ---- retry policy and error handler of translate_file ----

\* variant: stops one attempt late
StopAfterAttempt_Late(a) == a > MaxAttempts

\* variant: stops one attempt early
StopAfterAttempt_Early(a) == a >= MaxAttempts - 1

\* tenacity.stop_after_attempt(3)
StopAfterAttempt(a) == a >= MaxAttempts

\* variant: only the HTTP error of _send_request is handled
Catches_OnlyHttp(e) == e = "http"

\* `except Exception` around _send_request and the body extraction:
\* "http" = HTTPStatusError / transport error re-raised by tenacity,
\* "body" = JSON decoding error or KeyError
Catches(e) == TRUE

\* an exception that leaves a job's coroutine reaches gather()
GatherPhase(raised) ==
    IF raised /\ ~ReturnExceptions THEN "aborted" ELSE phase

\* ---- paths: a path is the sequence of its parts ----

\* whether `root` is a leading part of `src`, compared part by part
RECURSIVE IsRelativeTo(_, _)
IsRelativeTo(src, root) ==
    IF root = <<>> THEN TRUE
    ELSE IF src = <<>> THEN FALSE
    ELSE Head(src) = Head(root) /\ IsRelativeTo(Tail(src), Tail(root))

\* Path.relative_to: the parts of `src` after those of `root`; ValueError
\* when `src` is not under `root`
RECURSIVE relative_to(_, _)
relative_to(src, root) ==
    IF ~IsRelativeTo(src, root) THEN <<"ValueError">>
    ELSE IF root = <<>> THEN src
    ELSE relative_to(Tail(src), Tail(root))

\* variant: the input root is not stripped
map_output_path_KeepsRoot(src, src_root, dst_root) == dst_root \o src

\* variant: only the file name is kept
map_output_path_NameOnly(src, src_root, dst_root) ==
    dst_root \o <<src[Len(src)]>>

\* map_output_path(src, src_root, dst_root)
map_output_path(src, src_root, dst_root) ==
    LET rel == relative_to(src, src_root)
    IN  dst_root \o rel

\* the j-th input file of a run whose paths do not matter:
\* root/x.html, root/a/x.html, root/a/a/x.html, ...
NestedFile(j) == <<"root">> \o [k \in 1..(j - 1) |-> "a"] \o <<"x.html">>

\* the state of batch() when _process starts, for --max-concurrent in maxes
BatchInit(maxes) ==
    /\ input_dir = <<"root">>
    /\ output_dir = <<"out">>
    /\ n \in 0..MaxJobs
    /\ input_files = [j \in 1..n |-> NestedFile(j)]
    /\ output_files = [j \in 1..n |->
                         map_output_path(input_files[j], input_dir, output_dir)]
    /\ max_concurrent \in maxes
    /\ sem = InitialValue(max_concurrent)
    /\ waiters = <<>>
    /\ pc = [j \in 1..n |-> "pending"]
    /\ attempts = [j \in 1..n |-> 0]
    /\ hist = [j \in 1..n |-> <<>>]
    /\ result = [j \in 1..n |-> Pending]
    /\ exc = [j \in 1..n |-> "none"]
    /\ wrote = [j \in 1..n |-> "none"]
    /\ output = [j \in 1..n |-> Absent]
    /\ lines = [j \in 1..n |-> NoLines]
    /\ phase = "running"
    /\ n_total = 0
    /\ n_success = 0
    /\ summaries = 0

Init == BatchInit(1..MaxConcurrent)

\* translate_file_async from its start to its first suspension: read the
\* input, build the job, enter translate_file and acquire the semaphore
Start(j) ==
    /\ phase = "running"
    /\ pc[j] = "pending"
    /\ \E r \in ReadOutcomes :
         IF r = "read_error"
         THEN /\ pc' = [pc EXCEPT ![j] = "raised"]
              /\ exc' = [exc EXCEPT ![j] = "read"]
              /\ phase' = GatherPhase(TRUE)
              /\ UNCHANGED <<sem, waiters, attempts>>
         ELSE /\ IF ~Locked(sem, waiters)
                 THEN /\ sem' = sem - 1
                      /\ attempts' = [attempts EXCEPT ![j] = 1]
                      /\ pc' = [pc EXCEPT ![j] = "inflight"]
                      /\ UNCHANGED waiters
                 ELSE /\ waiters' = Append(waiters, j)
                      /\ pc' = [pc EXCEPT ![j] = "waiting"]
                      /\ UNCHANGED <<sem, attempts>>
              /\ UNCHANGED <<exc, phase>>
    /\ UNCHANGED <<n, max_concurrent, hist, result, wrote, output, lines,
                   n_total, n_success, summaries>>
    /\ UNCHANGED paths

\* a woken waiter resumes inside Semaphore.acquire, leaves the queue, passes
\* a spare unit on, and issues its first remote attempt
Resume(j) ==
    /\ phase = "running"
    /\ pc[j] = "granted"
    /\ LET ws == RemoveWaiter(waiters, j)
           p == [pc EXCEPT ![j] = "inflight"]
           r == IF sem > 0 THEN WakeUpNext(sem, ws, p)
                ELSE [sem |-> sem, pc |-> p]
       IN  /\ waiters' = ws
           /\ sem' = r.sem
           /\ pc' = r.pc
    /\ attempts' = [attempts EXCEPT ![j] = 1]
    /\ UNCHANGED <<n, max_concurrent, hist, result, exc, wrote,
                   output, lines, phase, n_total, n_success, summaries>>
    /\ UNCHANGED paths

\* variant: the output file is opened before the result is looked at
JobFailed_WritesOutput(j) ==
    /\ result' = [result EXCEPT ![j] = Failed]
    /\ lines' = [lines EXCEPT ![j].FAILURE = @ + 1]
    /\ output' = [output EXCEPT ![j] = "t1"]
    /\ LeaveGate(j, "return_failed", "returned")
    /\ UNCHANGED <<exc, wrote, phase>>

\* translate_file returned None: FAILURE line, coroutine returns
JobFailed(j) ==
    /\ result' = [result EXCEPT ![j] = Failed]
    /\ lines' = [lines EXCEPT ![j].FAILURE = @ + 1]
    /\ LeaveGate(j, "return_failed", "returned")
    /\ UNCHANGED <<exc, wrote, output, phase>>

\* an exception left translate_file itself
JobEscaped(j) ==
    /\ exc' = [exc EXCEPT ![j] = "translate"]
    /\ LeaveGate(j, "raise", "raised")
    /\ phase' = GatherPhase(TRUE)
    /\ UNCHANGED <<result, lines, wrote, output>>

\* variant: the body is extracted inside the retried call, so an unusable
\* 2xx body is retried like a failed attempt
JobError_RetriesBody(j, e) ==
    IF e = "body" /\ ~StopAfterAttempt(attempts[j])
    THEN /\ pc' = [pc EXCEPT ![j] = "backoff"]
         /\ UNCHANGED <<sem, waiters, result, exc, wrote, output, lines, phase>>
    ELSE JobFailed(j)

\* the error path of translate_file, for an exception of kind e
JobError(j, e) == IF Catches(e) THEN JobFailed(j) ELSE JobEscaped(j)

\* translate_file returned a TranslationJobResult: mkdir, open, write,
\* SUCCESS line; w is what the file system does
JobOk(j, c, w) ==
    /\ result' = [result EXCEPT ![j] = Ok(c)]
    /\ wrote' = [wrote EXCEPT ![j] = w]
    /\ IF w = "ok"
       THEN /\ output' = [output EXCEPT ![j] = c]
            /\ lines' = [lines EXCEPT ![j].SUCCESS = @ + 1]
            /\ LeaveGate(j, "return_ok", "returned")
            /\ UNCHANGED <<exc, phase>>
       ELSE /\ exc' = [exc EXCEPT ![j] = "write"]
            /\ LeaveGate(j, "return_ok", "raised")
            /\ phase' = GatherPhase(TRUE)
            /\ UNCHANGED <<output, lines>>

\* variant: the semaphore is taken per attempt, inside the retried call, and
\* so given back before each backoff wait
Respond_ReleasesInBackoff(j) ==
    /\ phase = "running"
    /\ pc[j] = "inflight"
    /\ \E o \in AttemptOutcomes, w \in WriteOutcomes :
         /\ hist' = [hist EXCEPT ![j] = Append(@, o)]
         /\ IF o = AttemptError
            THEN IF StopAfterAttempt(attempts[j])
                 THEN JobError(j, "http")
                 ELSE /\ LeaveGate(j, "retry", "backoff")
                      /\ UNCHANGED <<result, exc, wrote, output, lines, phase>>
            ELSE IF o = BadBody
                 THEN JobError(j, "body")
                 ELSE JobOk(j, o, w)
    /\ UNCHANGED <<n, max_concurrent, attempts, n_total, n_success,
                   summaries>>
    /\ UNCHANGED paths

\* the remote attempt of job j comes back with outcome o, and the job runs
\* on to its next suspension point or to its end
Respond(j) ==
    /\ phase = "running"
    /\ pc[j] = "inflight"
    /\ \E o \in AttemptOutcomes, w \in WriteOutcomes :
         /\ hist' = [hist EXCEPT ![j] = Append(@, o)]
         /\ IF o = AttemptError
            THEN IF StopAfterAttempt(attempts[j])
                 THEN JobError(j, "http")
                 ELSE /\ pc' = [pc EXCEPT ![j] = "backoff"]
                      /\ UNCHANGED <<sem, waiters, result, exc, wrote,
                                     output, lines, phase>>
            ELSE IF o = BadBody
                 THEN JobError(j, "body")
                 ELSE JobOk(j, o, w)
    /\ UNCHANGED <<n, max_concurrent, attempts, n_total, n_success,
                   summaries>>
    /\ UNCHANGED paths

\* the backoff wait of job j ends and tenacity issues the next attempt
Backoff(j) ==
    /\ phase = "running"
    /\ pc[j] = "backoff"
    /\ pc' = [pc EXCEPT ![j] = "inflight"]
    /\ attempts' = [attempts EXCEPT ![j] = @ + 1]
    /\ UNCHANGED <<n, max_concurrent, sem, waiters, hist, result,
                   exc, wrote, output, lines, phase, n_total, n_success,
                   summaries>>
    /\ UNCHANGED paths

\* variant: the results of gather() are never recognised as exceptions
IsException_Never(j) == FALSE

\* variant: the results are read one position off their pairs
IsException_Shifted(j) == pc[(j % n) + 1] = "raised"

\* what gather() holds for job j
IsException(j) == pc[j] = "raised"

\* variant: n_success is incremented for every result
CountSuccess_All(k) == k

\* the tally loop of batch over the first k results
RECURSIVE CountSuccess(_)
CountSuccess(k) ==
    IF k = 0 THEN 0
    ELSE CountSuccess(k - 1) + (IF IsException(k) THEN 0 ELSE 1)

\* variant: the batch goes on as soon as every job was started
Terminal_Started(j) == pc[j] # "pending"

\* job j's coroutine has ended, by return or by exception
Terminal(j) == pc[j] \in {"returned", "raised"}

\* gather() returns once every job has ended; batch tallies and prints
Summary ==
    /\ phase = "running"
    /\ \A j \in Jobs : Terminal(j)
    /\ n_total' = n
    /\ n_success' = CountSuccess(n)
    /\ lines' = [j \in Jobs |->
                   IF IsException(j) THEN [lines[j] EXCEPT !.ERROR = @ + 1]
                   ELSE lines[j]]
    /\ summaries' = summaries + 1
    /\ phase' = "done"
    /\ UNCHANGED <<n, max_concurrent, sem, waiters, pc, attempts,
                   hist, result, exc, wrote, output>>
    /\ UNCHANGED paths

Next ==
    \/ \E j \in Jobs : Start(j)
    \/ \E j \in Jobs : Resume(j)
    \/ \E j \in Jobs : Respond(j)
    \/ \E j \in Jobs : Backoff(j)
    \/ Summary

Spec == Init /\ [][Next]_vars

\* --max-concurrent is an unchecked integer option: 0 is accepted as well
\* (a negative value makes asyncio.Semaphore raise before any job exists)
AnyMaxInit == BatchInit(0..MaxConcurrent)

AnyMaxSpec == AnyMaxInit /\ [][Next]_vars

\* one atomic run of job j; at most one of the four is enabled at a time
JobStep(j) == Start(j) \/ Resume(j) \/ Respond(j) \/ Backoff(j)

\* every runnable task is eventually run by the event loop, every remote
\* attempt and every backoff wait eventually returns
Fairness ==
    /\ \A j \in 1..MaxJobs : WF_vars(j \in Jobs /\ JobStep(j))
    /\ WF_vars(Summary)

FairSpec == Spec /\ Fairness

\* ---- discovery of the input files and derivation of the output paths ----

\* names in the input tree
DirNames == {"a", "b"}
FileNames == {"b.html", "x.txt"}

\* p.suffix[1:] of a file name
Suffix(name) == IF name = "b.html" THEN "html" ELSE "txt"

\* --extensions, default "html,dita,ditamap,svg,xlf"
IncludedExtensions == {"html", "dita", "ditamap", "svg", "xlf"}

\* the files of the input tree, relative to the input directory
TreeFiles ==
    UNION {{ds \o <<f>> : ds \in [1..k -> DirNames], f \in FileNames} :
           k \in 0..MaxDepth}

\* the state of batch() when it starts: nothing discovered, no client, no job
PathInit ==
    /\ input_dir \in {<<>>, <<"root">>, <<"root", "a">>}
    /\ output_dir \in {<<"out">>, <<"root", "out">>}
    /\ input_files = <<>>
    /\ output_files = <<>>
    /\ n = 0
    /\ max_concurrent = 1
    /\ sem = 0
    /\ waiters = <<>>
    /\ pc = <<>>
    /\ attempts = <<>>
    /\ hist = <<>>
    /\ result = <<>>
    /\ exc = <<>>
    /\ wrote = <<>>
    /\ output = <<>>
    /\ lines = <<>>
    /\ phase = "discover"
    /\ n_total = 0
    /\ n_success = 0
    /\ summaries = 0

\* one round of the rglob loop that appends: p is a file under input_dir with
\* an included extension (rglob yields every path once, in any order)
Discover(p) ==
    /\ phase = "discover"
    /\ Len(input_files) < MaxJobs
    /\ \A i \in 1..Len(input_files) : input_files[i] # p
    /\ Suffix(p[Len(p)]) \in IncludedExtensions
    /\ input_files' = Append(input_files, p)
    /\ UNCHANGED <<n, max_concurrent, sem, waiters, pc, attempts, hist,
                   result, exc, wrote, output, lines, phase, n_total,
                   n_success, summaries, input_dir, output_dir, output_files>>

\* output_files = [map_output_path(p, input_dir, output_dir) for p in ...]
MapOutputs ==
    /\ phase = "discover"
    /\ output_files' = [i \in 1..Len(input_files) |->
                          map_output_path(input_files[i], input_dir, output_dir)]
    /\ phase' = "mapped"
    /\ UNCHANGED <<n, max_concurrent, sem, waiters, pc, attempts, hist,
                   result, exc, wrote, output, lines, n_total, n_success,
                   summaries, input_dir, output_dir, input_files>>

PathNext ==
    \/ \E r \in TreeFiles : Discover(input_dir \o r)
    \/ MapOutputs

PathSpec == PathInit /\ [][PathNext]_vars

\* ---- the `file` command: one job, no gather, no tally ----

\* max_concurrent=1 of the client built by `file`
FileMaxConcurrent == 1

\* `file INPUT_FILE [-o OUTPUT_FILE]`; "-" is stdin / stdout
FileInit ==
    /\ input_dir = <<>>
    /\ output_dir = <<>>
    /\ input_files \in {<<p>> : p \in {<<"-">>, <<"b.html">>, <<"root", "b.html">>}}
    /\ output_files \in {<<p>> : p \in {<<"-">>, <<"out", "b.html">>}}
    /\ n = 1
    /\ max_concurrent = FileMaxConcurrent
    /\ sem = InitialValue(max_concurrent)
    /\ waiters = <<>>
    /\ pc = [j \in 1..n |-> "pending"]
    /\ attempts = [j \in 1..n |-> 0]
    /\ hist = [j \in 1..n |-> <<>>]
    /\ result = [j \in 1..n |-> Pending]
    /\ exc = [j \in 1..n |-> "none"]
    /\ wrote = [j \in 1..n |-> "none"]
    /\ output = [j \in 1..n |-> Absent]
    /\ lines = [j \in 1..n |-> NoLines]
    /\ phase = "running"
    /\ n_total = 0
    /\ n_success = 0
    /\ summaries = 0

\* variant: the command ends normally whatever the job did
FileExit_Swallows ==
    /\ phase = "running"
    /\ Terminal(1)
    /\ phase' = "done"
    /\ UNCHANGED <<n, max_concurrent, sem, waiters, pc, attempts, hist,
                   result, exc, wrote, output, lines, n_total, n_success,
                   summaries>>
    /\ UNCHANGED paths

\* asyncio.run(translate_file_async(...)) returns, or re-raises what the
\* coroutine raised; nothing else is printed
FileExit ==
    /\ phase = "running"
    /\ Terminal(1)
    /\ phase' = IF IsException(1) THEN "crashed" ELSE "done"
    /\ UNCHANGED <<n, max_concurrent, sem, waiters, pc, attempts, hist,
                   result, exc, wrote, output, lines, n_total, n_success,
                   summaries>>
    /\ UNCHANGED paths

\* the only job never finds the semaphore locked, so it is never resumed
FileNext ==
    \/ Start(1)
    \/ Respond(1)
    \/ Backoff(1)
    \/ FileExit

FileSpec == FileInit /\ [][FileNext]_vars

\* ---- derived sets used by the properties ----

\* jobs with a remote call in flight: an attempt issued and not yet returned
InFlight == {j \in Jobs : pc[j] = "inflight"}

\* jobs that own a unit of the semaphore: inside the `async with` block, or
\* handed a unit by release and not yet resumed
Holding == {j \in Jobs : pc[j] \in {"granted", "inflight", "backoff"}}

Last(h) == h[Len(h)]

\* the job's completed attempts were all failures, and there were k of them
AllErrors(j, k) ==
    /\ Len(hist[j]) = k
    /\ \A i \in 1..k : hist[j][i] = AttemptError

\* what an observer of job j sees when it has ended
Outcome(j) ==
    [result |-> result[j], output |-> output[j],
     success_lines |-> lines[j].SUCCESS, failure_lines |-> lines[j].FAILURE,
     exception |-> IsException(j)]

\* ---- C1 ----
\* C1: in every reachable state the number of jobs with a remote call in
\* flight is at most max_concurrent, although all jobs are submitted at once.
C1_InFlightBounded == Cardinality(InFlight) <= max_concurrent

C1_Witness ==
    /\ n > max_concurrent
    /\ Cardinality(InFlight) = max_concurrent
    /\ \E j \in Jobs : pc[j] = "waiting"

\* ---- C2 ----
\* C2: the summary's success count is the number of jobs whose translation
\* returned Ok and whose output was written, and its failure count is the
\* number of all other jobs; a job that exhausted its retries is a failure.
C2_SummaryCountsFailures ==
    phase = "done" =>
        LET succeeded == {j \in Jobs : result[j].tag = "Ok" /\ wrote[j] = "ok"}
        IN  /\ n_total = n
            /\ n_success = Cardinality(succeeded)
            /\ n_total - n_success = Cardinality(Jobs \ succeeded)

C4_EveryJobTerminates ==
    <>(phase = "done" /\ summaries = 1 /\ \A j \in Jobs : Terminal(j))

C4_Witness ==
    /\ phase = "done"
    /\ summaries = 1
    /\ n > max_concurrent
    /\ \E j \in Jobs : AllErrors(j, MaxAttempts)

\* ---- C5 ----
\* C5: the semaphore is released on every exit path of translate_file: in
\* every state the free units plus the jobs owning a unit equal
\* max_concurrent, and once all jobs have ended all units are free.
C5_GateBalanced ==
    /\ sem + Cardinality(Holding) = max_concurrent
    /\ (\A j \in Jobs : Terminal(j)) => sem = max_concurrent

C5_Witness ==
    /\ \A j \in Jobs : Terminal(j)
    /\ sem = max_concurrent
    /\ \E j \in Jobs : AllErrors(j, MaxAttempts) /\ result[j] = Failed
    /\ \E j \in Jobs : hist[j] # <<>> /\ Last(hist[j]) = BadBody
                       /\ result[j] = Failed
    /\ \E j \in Jobs : result[j].tag = "Ok"

\* ---- C6 ----
\* C6: a job issues at most 3 remote attempts; an attempt is issued only if
\* all earlier attempts of the job failed; after the 3rd failed attempt no
\* further attempt is issued and translate_file returns Failed.
C6_AtMostThreeAttempts ==
    \A j \in Jobs :
      /\ attempts[j] <= MaxAttempts
      /\ Len(hist[j]) \in {attempts[j], attempts[j] - 1}
      /\ \A k \in 1..(attempts[j] - 1) : hist[j][k] = AttemptError
      /\ AllErrors(j, MaxAttempts) =>
           /\ result[j] = Failed
           /\ pc[j] = "returned"

C6_Witness ==
    \E j \in Jobs :
      /\ AllErrors(j, MaxAttempts)
      /\ attempts[j] = MaxAttempts
      /\ result[j] = Failed

\* ---- C7 ----
\* C7 (as stated): a Failed job's output path is never written, and after
\* the batch the written output files are exactly the jobs that received Ok.
C7_WrittenExactlyOk ==
    /\ \A j \in Jobs : result[j] = Failed => output[j] = Absent
    /\ phase = "done" =>
         {j \in Jobs : output[j] # Absent} = {j \in Jobs : result[j].tag = "Ok"}

\* C7 (amended): an output file is written only for a job that received Ok,
\* and holds that job's content; after the batch the written output files
\* are exactly the jobs that received Ok and whose write did not fail.
C7_WrittenOnlyWhenOk ==
    /\ \A j \in Jobs :
         output[j] # Absent => result[j] = Ok(output[j])
    /\ phase = "done" =>
         {j \in Jobs : output[j] # Absent} =
            {j \in Jobs : result[j].tag = "Ok" /\ wrote[j] = "ok"}

C7_Witness ==
    /\ phase = "done"
    /\ \E j \in Jobs : result[j] = Failed /\ output[j] = Absent
    /\ \E j \in Jobs : result[j].tag = "Ok" /\ wrote[j] = "write_error"
                       /\ output[j] = Absent
    /\ \E j \in Jobs : result[j].tag = "Ok" /\ output[j] = result[j].content

\* ---- C8 ----
\* C8: a job that fails on attempts 1 and 2 and succeeds on attempt 3 ends
\* in the same observable outcome as a job whose first attempt succeeds with
\* the same response: Ok with that content, the same output, a SUCCESS line,
\* counted as a success. Two failed attempts do not end a job.
C8_RetryTransparent ==
    /\ \A i, j \in Jobs :
         ( /\ Terminal(i) /\ Terminal(j)
           /\ Len(hist[i]) = MaxAttempts /\ Len(hist[j]) = 1
           /\ hist[j][1] \in Contents
           /\ Last(hist[i]) = hist[j][1]
           /\ wrote[i] = wrote[j] )
         => /\ Outcome(i) = Outcome(j)
            /\ result[i] = Ok(hist[j][1])
            /\ wrote[i] = "ok" =>
                 /\ output[i] = hist[j][1]
                 /\ lines[i].SUCCESS = 1
                 /\ ~IsException(i)
    /\ \A j \in Jobs :
         (Terminal(j) /\ hist[j] # <<>> /\ Last(hist[j]) = AttemptError)
         => Len(hist[j]) = MaxAttempts

C8_Witness ==
    \E i, j \in Jobs :
      /\ phase = "done"
      /\ hist[i] = <<AttemptError, AttemptError, "t1">>
      /\ hist[j] = <<"t1">>
      /\ wrote[i] = "ok" /\ wrote[j] = "ok"
      /\ output[i] = "t1" /\ output[j] = "t1"

\* ---- C9 ----
\* the outcome of job j as a function of what happened to job j alone: its
\* read, its own attempts, its own write
OwnOutcome(j) ==
    IF hist[j] = <<>>
    THEN [result |-> Pending, output |-> Absent,
          success_lines |-> 0, failure_lines |-> 0, exception |-> TRUE]
    ELSE IF Last(hist[j]) \in Contents
    THEN [result |-> Ok(Last(hist[j])),
          output |-> IF wrote[j] = "ok" THEN Last(hist[j]) ELSE Absent,
          success_lines |-> IF wrote[j] = "ok" THEN 1 ELSE 0,
          failure_lines |-> 0,
          exception |-> wrote[j] # "ok"]
    ELSE [result |-> Failed, output |-> Absent,
          success_lines |-> 0, failure_lines |-> 1, exception |-> FALSE]

\* job i ends in this step by a Failed result or by an exception
FailsNow(i) ==
    /\ ~Terminal(i)
    /\ Terminal(i)'
    /\ result'[i] = Failed \/ IsException(i)'

\* job j is left alone by this step, except that a waiter may be woken
SiblingUntouched(j) ==
    /\ pc'[j] = pc[j] \/ (pc[j] = "waiting" /\ pc'[j] = "granted")
    /\ attempts'[j] = attempts[j]
    /\ hist'[j] = hist[j]
    /\ result'[j] = result[j]
    /\ exc'[j] = exc[j]
    /\ wrote'[j] = wrote[j]
    /\ output'[j] = output[j]
    /\ lines'[j] = lines[j]

C9_StateInv ==
    /\ phase # "aborted"
    /\ phase = "running" => ENABLED Next
    /\ \A j \in Jobs : Terminal(j) => Outcome(j) = OwnOutcome(j)
    /\ phase = "done" =>
         /\ summaries = 1
         /\ n_total = n
         /\ \A j \in Jobs : Terminal(j)

\* C9: one job's failure never aborts the batch or another job: the step in
\* which a job fails leaves every sibling untouched, the batch is never
\* aborted and never stuck, every ended job's outcome is the one its own
\* read, attempts and write determine, and the summary covers all jobs.
C9_FailureIsolated ==
    /\ []C9_StateInv
    /\ [][\A i \in Jobs : FailsNow(i) =>
            \A j \in Jobs \ {i} : SiblingUntouched(j)]_vars

C9_Witness ==
    /\ phase = "done"
    /\ n_total = n
    /\ \E i \in Jobs : result[i] = Failed
    /\ \E i \in Jobs : IsException(i)
    /\ \E j \in Jobs : lines[j].SUCCESS = 1 /\ output[j] \in Contents

\* ---- C10 ----
\* C10: translate_file never raises to its caller: whatever the remote
\* service does, a job that got past reading its input gets Ok(content) or
\* Failed back as a value; an unusable 2xx body gives Failed.
C10_TranslateNeverRaises ==
    \A j \in Jobs :
      /\ exc[j] # "translate"
      /\ (Terminal(j) /\ exc[j] # "read") => result[j].tag \in {"Ok", "Failed"}
      /\ (Terminal(j) /\ hist[j] # <<>> /\ Last(hist[j]) \notin Contents)
           => result[j] = Failed

C10_Witness ==
    /\ \E j \in Jobs : Terminal(j) /\ hist[j] # <<>>
                       /\ Last(hist[j]) = BadBody /\ result[j] = Failed
    /\ \E j \in Jobs : AllErrors(j, MaxAttempts) /\ result[j] = Failed
    /\ \E j \in Jobs : Terminal(j) /\ result[j].tag = "Ok"

\* ---- C11 ----
\* C11: the output path derived for an input path under the input root is
\* the output root followed by the input path's parts below the input root,
\* part for part, at every depth of nesting; root/a/b.html under root with
\* output root out gives out/a/b.html.
C11_DirectoryMirroring ==
    phase = "mapped" =>
      /\ Len(output_files) = Len(input_files)
      /\ \A i \in 1..Len(input_files) :
           LET src == input_files[i]
               out == output_files[i]
               k == Len(input_dir)
               m == Len(output_dir)
           IN  /\ Len(out) = m + Len(src) - k
               /\ \A t \in 1..m : out[t] = output_dir[t]
               /\ \A t \in 1..(Len(src) - k) : out[m + t] = src[k + t]
               /\ (input_dir = <<"root">> /\ output_dir = <<"out">>
                   /\ src = <<"root", "a", "b.html">>)
                  => out = <<"out", "a", "b.html">>

C11_Witness ==
    /\ phase = "mapped"
    /\ input_dir = <<"root">>
    /\ output_dir = <<"out">>
    /\ \E i \in 1..Len(input_files) :
         /\ input_files[i] = <<"root", "a", "b.html">>
         /\ output_files[i] = <<"out", "a", "b.html">>
    /\ \E i \in 1..Len(input_files) :
         /\ input_files[i] = <<"root", "a", "b", "b.html">>
         /\ output_files[i] = <<"out", "a", "b", "b.html">>

\* ---- C18 ----
\* C18: within one batch distinct input files get distinct output paths, so
\* no two jobs write the same output file.
C18_OutputPathsDistinct ==
    phase = "mapped" =>
      \A i, j \in 1..Len(input_files) :
        i # j => /\ input_files[i] # input_files[j]
                 /\ output_files[i] # output_files[j]

C18_Witness ==
    /\ phase = "mapped"
    /\ \E i, j \in 1..Len(input_files) :
         /\ input_files[i] = input_dir \o <<"a", "b.html">>
         /\ input_files[j] = input_dir \o <<"b", "b.html">>
         /\ output_files[i] = output_dir \o <<"a", "b.html">>
         /\ output_files[j] = output_dir \o <<"b", "b.html">>

\* ---- C12 ----
\* a step of job j that takes a unit of the semaphore, resp. gives it back
Acquires(j) == j \notin Holding /\ j \in Holding'
Releases(j) == j \in Holding /\ j \notin Holding'

C12_StateInv ==
    /\ sem >= 0
    /\ sem + Cardinality({j \in Jobs : pc[j] \in {"inflight", "backoff"}})
         <= max_concurrent
    /\ \A j \in Jobs : attempts[j] > 0 /\ pc[j] \notin {"returned", "raised"}
                       => pc[j] \in {"inflight", "backoff"}

C12_Step ==
    \A j \in Jobs :
      /\ Acquires(j) => attempts[j] = 0
      /\ Releases(j) => pc'[j] \in {"returned", "raised"}
      /\ (pc[j] = "inflight" /\ pc'[j] = "backoff") =>
           /\ sem' = sem
           /\ waiters' = waiters
           /\ \A i \in Jobs \ {j} : pc'[i] = pc[i]
      /\ (pc[j] = "backoff" /\ pc'[j] = "inflight") =>
           /\ sem' = sem
           /\ waiters' = waiters

\* C12: a job takes one unit of the semaphore once, before its first
\* attempt, keeps it through all its attempts and backoff waits, and gives
\* it back only when its outcome is determined; a job in backoff occupies a
\* slot.
C12_GateHeldAcrossRetries == []C12_StateInv /\ [][C12_Step]_vars

C12_Witness ==
    /\ sem = 0
    /\ \E j \in Jobs : pc[j] = "backoff" /\ attempts[j] = 2
    /\ \E j \in Jobs : pc[j] = "waiting"

\* ---- C13 ----
C13_StateInv ==
    \A j \in Jobs :
      (hist[j] # <<>> /\ Last(hist[j]) # AttemptError) =>
        /\ pc[j] \in {"returned", "raised"}
        /\ attempts[j] = Len(hist[j])
        /\ Last(hist[j]) = BadBody => result[j] = Failed

C13_Step ==
    \A j \in Jobs :
      attempts'[j] # attempts[j] =>
        /\ attempts'[j] = attempts[j] + 1
        /\ hist[j] = <<>> \/ Last(hist[j]) = AttemptError

\* C13: only a failed attempt is followed by a further attempt; after a 2xx
\* response no further attempt is made, and a 2xx body that cannot be used
\* ends the job with Failed without a retry.
C13_OnlyFailuresRetried == []C13_StateInv /\ [][C13_Step]_vars

C13_Witness ==
    \E j \in Jobs :
      /\ hist[j] = <<AttemptError, BadBody>>
      /\ attempts[j] = 2
      /\ result[j] = Failed
      /\ pc[j] = "returned"

\* ---- C14 ----
C14_StateInv ==
    /\ summaries <= 1
    /\ summaries = 1 <=> phase = "done"
    /\ phase = "done" =>
         /\ \A j \in Jobs : pc[j] \in {"returned", "raised"}
         /\ n_total = Len(output_files)
         /\ n_success \in 0..n_total

\* C14: the summary is emitted exactly once, after every job has ended; no
\* status line and no output write follows it; its total is the number of
\* submitted pairs and successes plus failures add up to the total.
C14_SummaryOnceAfterAll ==
    /\ []C14_StateInv
    /\ [][phase = "done" =>
            (lines' = lines /\ output' = output /\ summaries' = summaries)]_vars

C14_Witness ==
    /\ phase = "done"
    /\ summaries = 1
    /\ n_total >= 2
    /\ n_success \in 1..(n_total - 1)

\* ---- C15 ----
C15_StateInv ==
    /\ \A j \in Jobs :
         /\ exc[j] = "read" =>
              attempts[j] = 0 /\ hist[j] = <<>> /\ pc[j] = "raised"
         /\ exc[j] = "write" =>
              attempts[j] = Len(hist[j]) /\ pc[j] = "raised"
         /\ exc[j] # "none" => IsException(j)
    /\ phase = "done" =>
         n_total - n_success >= Cardinality({j \in Jobs : exc[j] # "none"})

\* C15: a local I/O error is not retried and becomes a job failure: a job
\* whose input cannot be read issues no remote attempt, a job whose output
\* cannot be written issues no further attempt, and both are counted as
\* failures in the summary.
C15_IoErrorIsJobFailure ==
    /\ []C15_StateInv
    /\ [][\A j \in Jobs : exc[j] # "none" =>
            (attempts'[j] = attempts[j] /\ hist'[j] = hist[j])]_vars

C15_Witness ==
    /\ phase = "done"
    /\ \E j \in Jobs : exc[j] = "read" /\ attempts[j] = 0
    /\ \E j \in Jobs : exc[j] = "write" /\ attempts[j] = 2
    /\ n_total - n_success = 2

\* ---- C19 ----
\* C19: the batch result is a function of the pairs and of what happened to
\* each job alone, whatever the schedule: when the batch is done every job
\* has the outcome its own read, attempts and write determine, the error
\* line of a job is tallied against that job's own pair, and the counts are
\* those of these outcomes.
C19_ScheduleIndependent ==
    phase = "done" =>
      /\ n_total = n
      /\ n_success = Cardinality({j \in Jobs : ~OwnOutcome(j).exception})
      /\ \A j \in Jobs :
           /\ Outcome(j) = OwnOutcome(j)
           /\ lines[j].ERROR = IF OwnOutcome(j).exception THEN 1 ELSE 0

C19_Witness ==
    /\ phase = "done"
    /\ n >= 2
    /\ exc[1] = "write" /\ lines[1].ERROR = 1 /\ Len(hist[1]) = MaxAttempts
    /\ lines[2].SUCCESS = 1 /\ Len(hist[2]) = 1
    /\ n_success = n - 1

C17_ZeroBlocksEveryJob ==
    (max_concurrent = 0 /\ \E j \in Jobs : pc[j] = "waiting") =>
      /\ \A j \in Jobs : attempts[j] = 0 /\ ~Terminal(j)
      /\ summaries = 0

C17_StateInv ==
    max_concurrent = 0 =>
      /\ sem = 0
      /\ Holding = {}
      /\ \A j \in Jobs :
           /\ attempts[j] = 0 /\ hist[j] = <<>>
           /\ Terminal(j) => exc[j] = "read"
      /\ (\E j \in Jobs : pc[j] = "waiting") =>
           phase = "running" /\ summaries = 0

\* C17 (amended): max_concurrent = 0 is accepted; then no job ever takes the
\* semaphore and no remote attempt is issued, a job whose input was read
\* waits forever and never ends, and once there is such a job the summary is
\* never emitted; only a job whose input cannot be read ends, by its
\* exception.
C17_ZeroBlocksReadJobs ==
    /\ []C17_StateInv
    /\ [][\A j \in Jobs : (max_concurrent = 0 /\ pc[j] = "waiting") =>
            (pc'[j] = "waiting" /\ phase' = "running")]_vars

C17_Witness ==
    /\ max_concurrent = 0
    /\ phase = "running"
    /\ \A j \in Jobs : pc[j] # "pending"
    /\ \E j \in Jobs : pc[j] = "waiting"
    /\ \E j \in Jobs : pc[j] = "raised" /\ exc[j] = "read"

====
